---- MODULE Spec2Model ----
(***************************************************************************)
(* Model of rust/yarp/build.rs: the generator of the typed bindings over   *)
(* the YARP syntax tree, and the bindings it generates.                    *)
(*                                                                         *)
(*   SpecNames     the naming transforms struct_name and type_name         *)
(*   SpecDoc       the doc-comment loop at the head of write_node          *)
(*   SpecVisitGen  write_visit: the default traversal function of a node   *)
(*   SpecUnion     the generated Node::new and downcasts                   *)
(*   SpecBindings  the generated accessors, iterators and traversal        *)
(*   SpecIter      two generated iterators over one list                   *)
(*   SpecLocation  the Location view: start, end, as_slice                 *)
(*   SpecVisit     the Visit trait run over a foreign tree                 *)
(*                                                                         *)
(* Text is a sequence of one-character strings.                            *)
(***************************************************************************)
EXTENDS Integers, Sequences, FiniteSets, TLC

VARIABLES
    names,      \* SpecNames: the two identifiers handed to the transforms
    structs,    \* SpecNames: <<struct_name(n1), struct_name(n2)>> once computed
    types,      \* SpecNames: <<type_name(n1), type_name(n2)>> once computed
    comment,    \* SpecDoc: node.comment.lines(), the lines of the doc block
    line_ix,    \* SpecDoc: number of lines the for loop has consumed
    example,    \* SpecDoc: the local example
    doc_out,    \* SpecDoc: the lines written to the file, each with its writeln! site
    doc_pc,     \* SpecDoc: "loop" | "done"
    gen_node,   \* SpecVisitGen: the schema node write_visit is at
    gen_fn,     \* SpecVisitGen: the default traversal function written for it
    mem,        \* bindings: the foreign memory, cell address -> content
    self,       \* bindings: the wrapper the client holds (parser, pointer, kind)
    ret,        \* bindings: the last call made and what it returned
    iters,      \* bindings: the client's two list iterators (None: not created)
    yields,     \* bindings: per iterator, what its next() calls returned, in order
    aborted,    \* bindings: a panic has ended the program
    stack,      \* SpecVisit: the calls of default traversal functions in progress
    visits      \* SpecVisit: the per-kind visit methods invoked so far, in order

namesVars == <<names, structs, types>>

docVars == <<comment, line_ix, example, doc_out, doc_pc>>

genVars == <<gen_node, gen_fn>>

rtVars == <<mem, self, ret, iters, yields, aborted>>

walkVars == <<stack, visits>>

vars == <<namesVars, docVars, genVars, rtVars, walkVars>>

\* The value of a variable that the specification at hand does not use.
Idle == "idle"

(***************************************************************************)
(* Option<T>                                                               *)
(***************************************************************************)
None == [tag |-> "None"]

Some(x) == [tag |-> "Some", val |-> x]

(***************************************************************************)
(* Bounds                                                                  *)
(***************************************************************************)
MaxNameLen == 3
MaxDocLines == 3
MaxFields == 3
NumNodes == 2
MaxListLen == 2

(***************************************************************************)
(* Characters: char::is_uppercase, char::to_lowercase, char::to_uppercase  *)
(* on the ASCII letters, digits and '_'.                                   *)
(***************************************************************************)
UpperAZ ==
    << "A", "B", "C", "D", "E", "F", "G", "H", "I", "J", "K", "L", "M",
       "N", "O", "P", "Q", "R", "S", "T", "U", "V", "W", "X", "Y", "Z" >>

LowerAZ ==
    << "a", "b", "c", "d", "e", "f", "g", "h", "i", "j", "k", "l", "m",
       "n", "o", "p", "q", "r", "s", "t", "u", "v", "w", "x", "y", "z" >>

LetterIndex(table, c) ==
    CHOOSE i \in 1..Len(table) : table[i] = c

is_uppercase(c) ==
    \E i \in 1..Len(UpperAZ) : UpperAZ[i] = c

is_lowercase(c) ==
    \E i \in 1..Len(LowerAZ) : LowerAZ[i] = c

\* char.to_lowercase().next().unwrap()
to_lowercase(c) ==
    IF is_uppercase(c) THEN LowerAZ[LetterIndex(UpperAZ, c)] ELSE c

\* char.to_uppercase().next().unwrap()
to_uppercase(c) ==
    IF is_lowercase(c) THEN UpperAZ[LetterIndex(LowerAZ, c)] ELSE c

(***************************************************************************)
(* struct_name and type_name                                               *)
(***************************************************************************)
RECURSIVE struct_name_loop(_, _, _)
struct_name_loop(name, i, result) ==
    IF i > Len(name) THEN result
    ELSE LET char == name[i]
             sep  == IF is_uppercase(char) THEN result \o <<"_">> ELSE result
         IN  struct_name_loop(name, i + 1, sep \o <<to_lowercase(char)>>)

\* A struct_name that leaves the separator out before the first character.
RECURSIVE struct_name_loop_nolead(_, _, _)
struct_name_loop_nolead(name, i, result) ==
    IF i > Len(name) THEN result
    ELSE LET char == name[i]
             sep  == IF is_uppercase(char) /\ i > 1 THEN result \o <<"_">> ELSE result
         IN  struct_name_loop_nolead(name, i + 1, sep \o <<to_lowercase(char)>>)

struct_name_nolead(name) ==
    struct_name_loop_nolead(name, 1, <<>>)

struct_name(name) ==
    struct_name_loop(name, 1, <<>>)

YP_NODE == << "Y", "P", "_", "N", "O", "D", "E" >>

RECURSIVE type_name_loop(_, _, _)
type_name_loop(name, i, result) ==
    IF i > Len(name) THEN result
    ELSE LET char == name[i]
             sep  == IF is_uppercase(char) THEN result \o <<"_">> ELSE result
         IN  type_name_loop(name, i + 1, sep \o <<to_uppercase(char)>>)

\* A type_name that forgets the separator.
RECURSIVE type_name_loop_nosep(_, _, _)
type_name_loop_nosep(name, i, result) ==
    IF i > Len(name) THEN result
    ELSE type_name_loop_nosep(name, i + 1, result \o <<to_uppercase(name[i])>>)

type_name_nosep(name) ==
    type_name_loop_nosep(name, 1, YP_NODE)

type_name(name) ==
    type_name_loop(name, 1, YP_NODE)

(***************************************************************************)
(* SpecNames: the transforms applied to two identifiers                    *)
(***************************************************************************)
\* The characters identifiers are drawn from: two uppercase letters, a
\* lowercase letter that is the lowercase of one of them, and a digit.
NameChars == { "A", "Z", "a", "1" }

\* All sequences over S of length at most n.
RECURSIVE SeqsUpTo(_, _)
SeqsUpTo(S, n) ==
    IF n = 0 THEN { <<>> }
    ELSE LET shorter == SeqsUpTo(S, n - 1)
         IN  shorter \cup { Append(t, x) : t \in shorter, x \in S }

Identifiers == SeqsUpTo(NameChars, MaxNameLen)

DocIdle ==
    /\ comment = Idle /\ line_ix = Idle /\ example = Idle
    /\ doc_out = Idle /\ doc_pc = Idle

NamesIdle ==
    /\ names = Idle /\ structs = Idle /\ types = Idle

GenIdle ==
    /\ gen_node = Idle /\ gen_fn = Idle

RtIdle ==
    /\ mem = Idle /\ self = Idle /\ ret = Idle
    /\ iters = Idle /\ yields = Idle /\ aborted = Idle

WalkIdle ==
    /\ stack = Idle /\ visits = Idle

InitNames ==
    /\ names \in Identifiers \X Identifiers
    /\ structs = <<>>
    /\ types = <<>>
    /\ DocIdle
    /\ GenIdle
    /\ RtIdle
    /\ WalkIdle

CallStructName ==
    /\ structs = <<>>
    /\ structs' = << struct_name(names[1]), struct_name(names[2]) >>
    /\ UNCHANGED <<names, types, docVars, genVars, rtVars, walkVars>>

CallTypeName ==
    /\ types = <<>>
    /\ types' = << type_name(names[1]), type_name(names[2]) >>
    /\ UNCHANGED <<names, structs, docVars, genVars, rtVars, walkVars>>

NextNames ==
    \/ CallStructName
    \/ CallTypeName

SpecNames == InitNames /\ [][NextNames]_vars

(***************************************************************************)
(* Properties of the naming transforms                                     *)
(***************************************************************************)
NamesComputed ==
    /\ structs # <<>>
    /\ types # <<>>

\* C9: the naming transforms are injective over identifiers made of letters
\* and digits: two distinct identifiers never get the same struct_name, nor
\* the same type_name (so never the same tag constant).
C9_NamingInjective ==
    names[1] # names[2] =>
        /\ structs # <<>> => structs[1] # structs[2]
        /\ types # <<>> => types[1] # types[2]

\* Two distinct identifiers that differ only in the case of their letters,
\* both transformed.
C9_Witness ==
    /\ NamesComputed
    /\ names = << <<"A", "a">>, <<"a", "A">> >>

UpperCount(name, i) ==
    Cardinality({ k \in 1..i : is_uppercase(name[k]) })

Uppercased(text) ==
    [ k \in 1..Len(text) |-> to_uppercase(text[k]) ]

\* The output holds one separator per uppercase input character, each right
\* before the lowercased character it belongs to, and nothing else.
StructNameShape(name, out) ==
    /\ Len(out) = Len(name) + UpperCount(name, Len(name))
    /\ \A i \in 1..Len(name) :
          LET p == i + UpperCount(name, i)
          IN  /\ out[p] = to_lowercase(name[i])
              /\ is_uppercase(name[i]) => out[p - 1] = "_"

\* C10: struct_name emits, per input character in order, a separator when the
\* character is uppercase (the first character included) and then the
\* character lowercased; type_name is the prefix YP_NODE followed by
\* struct_name uppercased.
C10_NamingShape ==
    /\ structs # <<>> =>
          \A n \in 1..2 : StructNameShape(names[n], structs[n])
    /\ NamesComputed =>
          \A n \in 1..2 : types[n] = YP_NODE \o Uppercased(structs[n])

\* An identifier that starts with an uppercase letter, transformed: its
\* struct_name starts with the separator.
C10_Witness ==
    /\ NamesComputed
    /\ names[1] = <<"A", "a", "Z">>
    /\ structs[1] = <<"_", "a", "a", "_", "z">>
    /\ types[1] = YP_NODE \o <<"_", "A", "A", "_", "Z">>

(***************************************************************************)
(* SpecDoc: the doc-comment loop of write_node                             *)
(***************************************************************************)
Indent == << " ", " ", " ", " " >>

\* str::strip_prefix: None when the line does not start with the prefix.

starts_with(line, prefix) ==
    /\ Len(line) >= Len(prefix)
    /\ SubSeq(line, 1, Len(prefix)) = prefix

strip_prefix(line, prefix) ==
    IF starts_with(line, prefix)
    THEN Some(SubSeq(line, Len(prefix) + 1, Len(line)))
    ELSE None

\* writeln!(file, "/// {}", text), tagged with the statement that wrote it.
DocPrefix == << "/", "/", "/", " " >>

\* The grave accent is written "^" here: the TLA+ lexer reserves the character.
Fence == << "^", "^", "^" >>

OpenFenceLine == [site |-> "open", text |-> DocPrefix \o Fence \o <<"r", "u", "b", "y">>]

CloseFenceLine == [site |-> "close", text |-> DocPrefix \o Fence]

CommentLine(site, text) == [site |-> site, text |-> DocPrefix \o text]

\* The lines a documentation block is made of.
DocLines ==
    { << "a" >>,
      << >>,
      << " ", " ", "a" >>,
      Indent,
      Indent \o << "a" >>,
      Indent \o Indent \o << "a" >>,
      Fence }

InitDoc ==
    /\ comment \in SeqsUpTo(DocLines, MaxDocLines)
    /\ line_ix = 0
    /\ example = FALSE
    /\ doc_out = <<>>
    /\ doc_pc = "loop"
    /\ NamesIdle
    /\ GenIdle
    /\ RtIdle
    /\ WalkIdle

\* An iteration on an indented line that writes the line with its indent.
DocExampleLineKeepIndent ==
    /\ doc_pc = "loop"
    /\ line_ix < Len(comment)
    /\ LET line == comment[line_ix + 1]
       IN  /\ strip_prefix(line, Indent) # None
           /\ doc_out' = (IF ~example THEN Append(doc_out, OpenFenceLine) ELSE doc_out)
                            \o << CommentLine("example", line) >>
           /\ example' = TRUE
    /\ line_ix' = line_ix + 1
    /\ UNCHANGED <<comment, doc_pc, namesVars, genVars, rtVars, walkVars>>

\* One iteration of the for loop on a line that starts with the indent.
DocExampleLine ==
    /\ doc_pc = "loop"
    /\ line_ix < Len(comment)
    /\ LET line == comment[line_ix + 1]
           stripped == strip_prefix(line, Indent)
       IN  /\ stripped # None
           /\ doc_out' = (IF ~example THEN Append(doc_out, OpenFenceLine) ELSE doc_out)
                            \o << CommentLine("example", stripped.val) >>
           /\ example' = TRUE
    /\ line_ix' = line_ix + 1
    /\ UNCHANGED <<comment, doc_pc, namesVars, genVars, rtVars, walkVars>>

\* One iteration of the for loop on any other line.
DocPlainLine ==
    /\ doc_pc = "loop"
    /\ line_ix < Len(comment)
    /\ LET line == comment[line_ix + 1]
       IN  /\ strip_prefix(line, Indent) = None
           /\ doc_out' = (IF example THEN Append(doc_out, CloseFenceLine) ELSE doc_out)
                            \o << CommentLine("plain", line) >>
           /\ example' = FALSE
    /\ line_ix' = line_ix + 1
    /\ UNCHANGED <<comment, doc_pc, namesVars, genVars, rtVars, walkVars>>

\* A loop exit that forgets the block still open.
DocEndNoClose ==
    /\ doc_pc = "loop"
    /\ line_ix = Len(comment)
    /\ doc_pc' = "done"
    /\ UNCHANGED <<doc_out, comment, line_ix, example, namesVars, genVars, rtVars, walkVars>>

\* The end of the loop: if example { writeln!(file, closing fence) }.
DocEnd ==
    /\ doc_pc = "loop"
    /\ line_ix = Len(comment)
    /\ doc_out' = (IF example THEN Append(doc_out, CloseFenceLine) ELSE doc_out)
    /\ doc_pc' = "done"
    /\ UNCHANGED <<comment, line_ix, example, namesVars, genVars, rtVars, walkVars>>

NextDoc ==
    \/ DocExampleLine
    \/ DocPlainLine
    \/ DocEnd

SpecDoc == InitDoc /\ [][NextDoc]_vars

(***************************************************************************)
(* Properties of the doc-comment loop                                      *)
(***************************************************************************)
IsFenceLine(entry) == entry.site \in { "open", "close" }

FenceMarkers == SelectSeq(doc_out, IsFenceLine)

IsIndented(line) ==
    /\ Len(line) >= 4
    /\ \A k \in 1..4 : line[k] = " "

\* The number of maximal runs of consecutive indented lines.
IndentedRuns(lines) ==
    Cardinality({ i \in 1..Len(lines) :
                    /\ IsIndented(lines[i])
                    /\ i = 1 \/ ~IsIndented(lines[i - 1]) })

\* C5: the fence markers written are balanced: they alternate open, close,
\* open, ... starting with an open; once the block is written the last marker
\* is a close, and there are as many open/close pairs as maximal runs of
\* indented lines.
C5_FencesBalanced ==
    /\ \A k \in 1..Len(FenceMarkers) :
          FenceMarkers[k].site = (IF k % 2 = 1 THEN "open" ELSE "close")
    /\ doc_pc = "done" => Len(FenceMarkers) = 2 * IndentedRuns(comment)

\* A block with two runs of indented lines, the second one ending the block,
\* fully written.
C5_Witness ==
    /\ doc_pc = "done"
    /\ IndentedRuns(comment) = 2
    /\ IsIndented(comment[Len(comment)])
    /\ Len(FenceMarkers) = 4

(***************************************************************************)
(* The schema: NodeFieldType, NodeField, Node                              *)
(***************************************************************************)
FieldTypes ==
    { "Node", "OptionalNode", "NodeList", "String", "Constant", "ConstantList",
      "Location", "OptionalLocation", "LocationList", "UInt32", "Flags" }

\* NodeField { name, field_type, kind }; kind is an Option<String>.
Field(name, field_type, kind) ==
    [name |-> name, field_type |-> field_type, kind |-> kind]

N_Prog == << "P", "r", "o", "g" >>

N_Stmts == << "S", "t", "m", "t", "s" >>

N_Paren == << "P", "a", "r", "e", "n" >>

N_Block == << "B", "l", "o", "c", "k" >>

N_Multi == << "M", "u", "l", "t", "i" >>

(***************************************************************************)
(* write_visit: the default traversal function of one node                 *)
(***************************************************************************)
VisitText == << "v", "i", "s", "i", "t" >>

\* One statement of a generated traversal function: visitor.<method>(..) on
\* the value of node.<field>(), called directly ("call"), under
\* if-let-Some(node) ("if_some") or for each item of .iter() ("for").
Stmt(form, method, field) ==
    [form |-> form, method |-> method, field |-> field.name]

\* A first loop that does not count node[] as child-bearing.
has_children_no_list(node) ==
    \E i \in 1..Len(node.fields) :
        node.fields[i].field_type \in { "Node", "OptionalNode" }

\* The first loop over the fields: is there a child-bearing field?
has_children(node) ==
    \E i \in 1..Len(node.fields) :
        node.fields[i].field_type \in { "Node", "OptionalNode", "NodeList" }

\* A match that lets OptionalNode fall into the catch-all arm.
visit_stmts_no_optional(field) ==
    CASE field.field_type = "Node" ->
            IF field.kind # None
            THEN << Stmt("call", VisitText \o struct_name(field.kind.val), field) >>
            ELSE << Stmt("call", VisitText, field) >>
      [] field.field_type = "NodeList" ->
            << Stmt("for", VisitText, field) >>
      [] OTHER -> << >>

\* A match that writes visitor.visit(..) whatever kind the field declares.
visit_stmts_generic(field) ==
    CASE field.field_type = "Node" -> << Stmt("call", VisitText, field) >>
      [] field.field_type = "OptionalNode" -> << Stmt("if_some", VisitText, field) >>
      [] field.field_type = "NodeList" -> << Stmt("for", VisitText, field) >>
      [] OTHER -> << >>

\* The match of the second loop: the statements written for one field.
visit_stmts(field) ==
    CASE field.field_type = "Node" ->
            IF field.kind # None
            THEN << Stmt("call", VisitText \o struct_name(field.kind.val), field) >>
            ELSE << Stmt("call", VisitText, field) >>
      [] field.field_type = "OptionalNode" ->
            IF field.kind # None
            THEN << Stmt("if_some", VisitText \o struct_name(field.kind.val), field) >>
            ELSE << Stmt("if_some", VisitText, field) >>
      [] field.field_type = "NodeList" ->
            << Stmt("for", VisitText, field) >>
      [] OTHER -> << >>

RECURSIVE visit_body(_, _, _)
visit_body(fields, i, out) ==
    IF i > Len(fields) THEN out
    ELSE visit_body(fields, i + 1, out \o visit_stmts(fields[i]))

\* pub fn visit{struct_name}(visitor, node) { body }, or the empty function
\* on (_visitor, _node) when no field bears a child.
write_visit_fn(node) ==
    [ name |-> VisitText \o struct_name(node.name),
      node |-> node.name,
      children |-> has_children(node),
      body |-> IF has_children(node) THEN visit_body(node.fields, 1, << >>) ELSE << >> ]

(***************************************************************************)
(* SpecVisitGen: write_visit on a node with any fields                     *)
(***************************************************************************)
\* A narrowed kind is read on node and node? fields only; node[] takes one
\* here too, to show it is ignored.
FieldShapes ==
    { [field_type |-> t, kind |-> None] : t \in FieldTypes }
    \cup { [field_type |-> t, kind |-> Some(N_Stmts)] :
             t \in { "Node", "OptionalNode", "NodeList" } }

\* Fields are named after their position, so names are unique in a node.
NamedFields(shapes) ==
    [ i \in 1..Len(shapes) |->
        Field("f" \o ToString(i), shapes[i].field_type, shapes[i].kind) ]

InitVisitGen ==
    /\ \E shapes \in SeqsUpTo(FieldShapes, MaxFields) :
          gen_node = [name |-> N_Prog, fields |-> NamedFields(shapes)]
    /\ gen_fn = None
    /\ NamesIdle
    /\ DocIdle
    /\ RtIdle
    /\ WalkIdle

WriteVisitFn ==
    /\ gen_fn = None
    /\ gen_fn' = Some(write_visit_fn(gen_node))
    /\ UNCHANGED <<gen_node, namesVars, docVars, rtVars, walkVars>>

NextVisitGen ==
    WriteVisitFn

SpecVisitGen == InitVisitGen /\ [][NextVisitGen]_vars

(***************************************************************************)
(* Properties of the generated traversal function                          *)
(***************************************************************************)
IsChildBearing(field) ==
    field.field_type \in { "Node", "OptionalNode", "NodeList" }

\* C1: the default traversal function written for a node holds exactly one
\* visit step per field of type node, node? or node[], in declared field
\* order, and no step for a field of any other type.
C1_TraversalTouchesChildFields ==
    gen_fn # None =>
        LET body == gen_fn.val.body
            bearing == SelectSeq(gen_node.fields, IsChildBearing)
        IN  /\ Len(body) = Len(bearing)
            /\ \A k \in 1..Len(body) : body[k].field = bearing[k].name

\* A node with a node? field, a uint32 field and a node[] field, in that
\* order: its function visits the first and the third field.
C1_Witness ==
    /\ gen_fn # None
    /\ Len(gen_node.fields) = 3
    /\ gen_node.fields[1].field_type = "OptionalNode"
    /\ gen_node.fields[2].field_type = "UInt32"
    /\ gen_node.fields[3].field_type = "NodeList"
    /\ Len(gen_fn.val.body) = 2
    /\ gen_fn.val.body[1].field = "f1"
    /\ gen_fn.val.body[2].field = "f3"

(***************************************************************************)
(* The schema the bindings below are generated from                        *)
(***************************************************************************)
Config ==
    << [ name |-> N_Prog,
         fields |-> << Field("statements", "Node", Some(N_Stmts)),
                       Field("expression", "Node", None) >> ],
       [ name |-> N_Stmts,
         fields |-> << Field("body", "NodeList", None) >> ],
       [ name |-> N_Paren,
         fields |-> << Field("body", "OptionalNode", None),
                       Field("rescue", "OptionalNode", Some(N_Stmts)),
                       Field("opening_loc", "OptionalLocation", None) >> ],
       [ name |-> N_Block,
         fields |-> << Field("locals", "ConstantList", None),
                       Field("name", "Constant", None),
                       Field("depth", "UInt32", None),
                       Field("flags", "Flags", None),
                       Field("closing_loc", "Location", None),
                       Field("text", "String", None) >> ],
       [ name |-> N_Multi,
         fields |-> << Field("locs", "LocationList", None) >> ] >>

KindIndex(kind) ==
    CHOOSE i \in 1..Len(Config) : Config[i].name = kind

NodeSpec(kind) == Config[KindIndex(kind)]

FieldIndex(kind, field_name) ==
    CHOOSE k \in 1..Len(NodeSpec(kind).fields) :
        NodeSpec(kind).fields[k].name = field_name

(***************************************************************************)
(* The foreign memory.  A node is a header cell (yp_node_t: type_, flags)  *)
(* followed by one cell per field of its struct; a list's backing array    *)
(* lies apart.  Addresses are integers, the null pointer is 0.             *)
(***************************************************************************)
NULL == 0

is_null(pointer) == pointer = NULL

\* The cells a node takes: its header and the fields of the widest struct.
NodeStride ==
    1 + (CHOOSE n \in { Len(Config[i].fields) : i \in 1..Len(Config) } :
            \A i \in 1..Len(Config) : Len(Config[i].fields) <= n)

NodeAddrs == { NodeStride * i : i \in 1..NumNodes }

\* Where the node of the wrapper under test lies.
SelfAddr == NodeStride

\* Where the backing array of its list lies.
ArrayBase == NodeStride * (NumNodes + 1)

\* &mut (*self.pointer).field: the address of the k-th field of the struct.
FieldAddr(pointer, k) == pointer + k

\* The enumerators of yarp_sys's yp_node_type, in the order of their values;
\* the last one is a node type the schema does not declare.
YpEnum(suffix) == << "Y", "P", "_", "N", "O", "D", "E", "_" >> \o suffix

YpNodeTypeNames ==
    << YpEnum(<< "P", "R", "O", "G" >>),
       YpEnum(<< "S", "T", "M", "T", "S" >>),
       YpEnum(<< "P", "A", "R", "E", "N" >>),
       YpEnum(<< "B", "L", "O", "C", "K" >>),
       YpEnum(<< "M", "U", "L", "T", "I" >>),
       YpEnum(<< "M", "I", "S", "S", "I", "N", "G" >>) >>

\* yp_node_type::NAME as u16
yp_node_type(enumerator) ==
    CHOOSE v \in 1..Len(YpNodeTypeNames) : YpNodeTypeNames[v] = enumerator

Tags == 1..Len(YpNodeTypeNames)

\* const {type_name}: u16 = yp_node_type::{type_name} as u16; one per node of
\* the schema.
TagConsts ==
    [ i \in 1..Len(Config) |-> yp_node_type(type_name(Config[i].name)) ]

TagConst(node) == TagConsts[KindIndex(node.name)]

(***************************************************************************)
(* Values of the generated types                                           *)
(***************************************************************************)
ParserHandle == "parser"

\* The per-kind wrapper struct {kind} { parser, pointer, marker }.
Wrapper(kind, parser, pointer) ==
    [tag |-> "Wrapper", kind |-> kind, parser |-> parser, pointer |-> pointer]

\* The union value Node::{variant} { parser, pointer, marker }.
NodeValue(variant, parser, pointer) ==
    [tag |-> "Node", variant |-> variant, parser |-> parser, pointer |-> pointer]

\* panic!("Unknown node type: {}", type_)
Panic(type_) == [tag |-> "Panic", message |-> "Unknown node type", type_ |-> type_]

IsPanic(v) == v.tag = "Panic"

\* Some(e), where evaluating e may panic.
SomeOf(v) == IF IsPanic(v) THEN v ELSE Some(v)

LocationView(pointer) == [tag |-> "Location", pointer |-> pointer]

ConstantId(parser, id) == [tag |-> "ConstantId", parser |-> parser, id |-> id]

NodeListView(parser, pointer) ==
    [tag |-> "NodeList", parser |-> parser, pointer |-> pointer]

ConstantListView(parser, pointer) ==
    [tag |-> "ConstantList", parser |-> parser, pointer |-> pointer]

LocationListView(pointer) == [tag |-> "LocationList", pointer |-> pointer]

Scalar(type, v) == [tag |-> type, val |-> v]

(***************************************************************************)
(* Node::new and the downcasts                                             *)
(***************************************************************************)
\* The arms of the match, one per node of the schema in order, then the catch-all.
RECURSIVE node_new_arms(_, _, _, _)
node_new_arms(i, parser, node, type_) ==
    IF i > Len(Config) THEN Panic(type_)
    ELSE IF type_ = TagConsts[i]
         THEN NodeValue(Config[i].name, parser, node)
         ELSE node_new_arms(i + 1, parser, node, type_)

\* A match whose last arm is taken for any other type instead of panicking.
Node_new_fallback(parser, node) ==
    LET v == node_new_arms(1, parser, node, mem[node].type_)
    IN  IF IsPanic(v) THEN NodeValue(Config[Len(Config)].name, parser, node) ELSE v

\* Node::new(parser, node): match (*node).type_
Node_new(parser, node) ==
    node_new_arms(1, parser, node, mem[node].type_)

\* A downcast that does not look at the variant.
as_kind_any(kind, node) ==
    Some(Wrapper(kind, node.parser, node.pointer))

\* Node::as{struct_name(kind)}(&self)
as_kind(kind, node) ==
    IF node.variant = kind
    THEN Some(Wrapper(kind, node.parser, node.pointer))
    ELSE None

(***************************************************************************)
(* The field accessors of a wrapper                                        *)
(***************************************************************************)
\* node? with a narrowed kind, without the null test.
OptionalNodeKind_nocheck(this, k, kind) ==
    Some(Wrapper(kind, this.parser, mem[FieldAddr(this.pointer, k)]))

OptionalNodeKind(this, k, kind) ==
    LET node == mem[FieldAddr(this.pointer, k)]
    IN  IF is_null(node) THEN None
        ELSE Some(Wrapper(kind, this.parser, node))

OptionalNodeAny(this, k) ==
    LET node == mem[FieldAddr(this.pointer, k)]
    IN  IF is_null(node) THEN None
        ELSE SomeOf(Node_new(this.parser, node))

OptionalLocation(this, k) ==
    LET pointer == FieldAddr(this.pointer, k)
    IN  IF is_null(pointer) THEN None
        ELSE Some(LocationView(pointer))

\* The accessor written for the k-th field of the wrapper's node.
Accessor(this, k) ==
    LET field == NodeSpec(this.kind).fields[k]
        cell == FieldAddr(this.pointer, k)
    IN  CASE field.field_type = "Node" ->
                IF field.kind # None
                THEN Wrapper(field.kind.val, this.parser, mem[cell])
                ELSE Node_new(this.parser, mem[cell])
          [] field.field_type = "OptionalNode" ->
                IF field.kind # None
                THEN OptionalNodeKind(this, k, field.kind.val)
                ELSE OptionalNodeAny(this, k)
          [] field.field_type = "NodeList" -> NodeListView(this.parser, cell)
          [] field.field_type = "String" -> Scalar("str", << >>)
          [] field.field_type = "Constant" -> ConstantId(this.parser, mem[cell])
          [] field.field_type = "ConstantList" -> ConstantListView(this.parser, cell)
          [] field.field_type = "Location" -> LocationView(cell)
          [] field.field_type = "OptionalLocation" -> OptionalLocation(this, k)
          [] field.field_type = "LocationList" -> LocationListView(cell)
          [] field.field_type = "UInt32" -> Scalar("u32", mem[cell])
          [] field.field_type = "Flags" -> Scalar("flags", mem[this.pointer].flags)

(***************************************************************************)
(* The lists and their iterators                                           *)
(***************************************************************************)
\* LocationList::iter
LocationList_iter(list) ==
    [family |-> "LocationList", pointer |-> list.pointer, index |-> 0]

\* NodeList::iter
NodeList_iter(list) ==
    [family |-> "NodeList", parser |-> list.parser, pointer |-> list.pointer,
     index |-> 0]

\* ConstantList::iter
ConstantList_iter(list) ==
    [family |-> "ConstantList", parser |-> list.parser, pointer |-> list.pointer,
     index |-> 0]

list_iter(list) ==
    CASE list.tag = "LocationList" -> LocationList_iter(list)
      [] list.tag = "NodeList" -> NodeList_iter(list)
      [] list.tag = "ConstantList" -> ConstantList_iter(list)

\* What next() hands back: the iterator after the call and the item.
Stepped(it, item) == [iter |-> it, item |-> item]

Advanced(it) == [it EXCEPT !.index = it.index + 1]

LocationListIter_next(it) ==
    IF it.index >= mem[it.pointer].size THEN Stepped(it, None)
    ELSE LET pointer == mem[it.pointer].locations + it.index
         IN  Stepped(Advanced(it), Some(LocationView(pointer)))

\* A next() that starts over once the end is reached.
NodeListIter_next_wrap(it) ==
    IF it.index >= mem[it.pointer].size
    THEN Stepped([it EXCEPT !.index = 0], None)
    ELSE LET node == mem[mem[it.pointer].nodes + it.index]
         IN  Stepped(Advanced(it), SomeOf(Node_new(it.parser, node)))

NodeListIter_next(it) ==
    IF it.index >= mem[it.pointer].size THEN Stepped(it, None)
    ELSE LET node == mem[mem[it.pointer].nodes + it.index]
         IN  Stepped(Advanced(it), SomeOf(Node_new(it.parser, node)))

ConstantListIter_next(it) ==
    IF it.index >= mem[it.pointer].size THEN Stepped(it, None)
    ELSE LET constant_id == mem[mem[it.pointer].ids + it.index]
         IN  Stepped(Advanced(it), Some(ConstantId(it.parser, constant_id)))

iter_next(it) ==
    CASE it.family = "LocationList" -> LocationListIter_next(it)
      [] it.family = "NodeList" -> NodeListIter_next(it)
      [] it.family = "ConstantList" -> ConstantListIter_next(it)

(***************************************************************************)
(* The default traversal function at run time: the visitor methods that   *)
(* visit{struct_name}(visitor, node) calls, in order, or the panic that    *)
(* ends it.                                                                *)
(***************************************************************************)
VisitCall(method, arg) == [method |-> method, arg |-> arg]

Visited(calls, panic) == [tag |-> "Visited", calls |-> calls, panic |-> panic]

\* for node in list.iter() { visitor.visit(&node); }
RECURSIVE for_each_visit(_, _, _)
for_each_visit(it, method, calls) ==
    LET step == iter_next(it)
    IN  IF step.item = None THEN Visited(calls, FALSE)
        ELSE IF IsPanic(step.item) THEN Visited(calls, TRUE)
        ELSE for_each_visit(step.iter, method,
                            Append(calls, VisitCall(method, step.item.val)))

run_stmt(this, stmt, calls) ==
    LET v == Accessor(this, FieldIndex(this.kind, stmt.field))
    IN  CASE stmt.form = "call" ->
                IF IsPanic(v) THEN Visited(calls, TRUE)
                ELSE Visited(Append(calls, VisitCall(stmt.method, v)), FALSE)
          [] stmt.form = "if_some" ->
                IF IsPanic(v) THEN Visited(calls, TRUE)
                ELSE IF v = None THEN Visited(calls, FALSE)
                ELSE Visited(Append(calls, VisitCall(stmt.method, v.val)), FALSE)
          [] stmt.form = "for" ->
                for_each_visit(list_iter(v), stmt.method, calls)

RECURSIVE run_body(_, _, _, _)
run_body(this, body, i, calls) ==
    IF i > Len(body) THEN Visited(calls, FALSE)
    ELSE LET done == run_stmt(this, body[i], calls)
         IN  IF done.panic THEN done
             ELSE run_body(this, body, i + 1, done.calls)

\* The traversal functions write_visit writes, one per node of the schema.
VisitFns ==
    [ i \in 1..Len(Config) |-> write_visit_fn(Config[i]) ]

visit_default(this) ==
    run_body(this, VisitFns[KindIndex(this.kind)].body, 1, << >>)

(***************************************************************************)
(* SpecBindings: a client holding the wrapper of one node calls its        *)
(* accessors, iterates its list and runs its default traversal.            *)
(* SpecIter: a client holds two iterators over the list of the node.       *)
(* SpecUnion: a client builds union values with Node::new and downcasts    *)
(* them.  All start from the same foreign memories.                        *)
(***************************************************************************)
ConstantIds == { 1, 2 }

\* yp_location_t { start, end }; an optional range that is not in the tree
\* has a null start.
AbsentRange == [start |-> NULL, end |-> NULL]

PresentRange == [start |-> 1, end |-> 3]

ListFields(node) ==
    { k \in 1..Len(node.fields) :
        node.fields[k].field_type \in { "NodeList", "ConstantList", "LocationList" } }

\* What the backing array of the node's list may hold.
ArrayChoices(node) ==
    IF \E k \in ListFields(node) : node.fields[k].field_type = "NodeList"
    THEN SeqsUpTo(NodeAddrs, MaxListLen)
    ELSE IF \E k \in ListFields(node) : node.fields[k].field_type = "ConstantList"
    THEN SeqsUpTo(ConstantIds, MaxListLen)
    ELSE IF \E k \in ListFields(node) : node.fields[k].field_type = "LocationList"
    THEN SeqsUpTo({ AbsentRange, PresentRange }, MaxListLen)
    ELSE { << >> }

\* The counts a list over the backing array may have: the array is full, or
\* its last cell is allocated and not in use.
SizeChoices(array) ==
    { n \in { Len(array) - 1, Len(array) } : n >= 0 }

\* What the cell of a field may hold, given the backing array.
CellChoices(field, array) ==
    CASE field.field_type = "Node" -> NodeAddrs
      [] field.field_type = "OptionalNode" -> { NULL } \cup NodeAddrs
      [] field.field_type = "NodeList" ->
            { [size |-> n, nodes |-> ArrayBase] : n \in SizeChoices(array) }
      [] field.field_type = "ConstantList" ->
            { [size |-> n, ids |-> ArrayBase] : n \in SizeChoices(array) }
      [] field.field_type = "LocationList" ->
            { [size |-> n, locations |-> ArrayBase] : n \in SizeChoices(array) }
      [] field.field_type = "Constant" -> { 1 }
      [] field.field_type = "Location" -> { PresentRange }
      [] field.field_type = "OptionalLocation" -> { AbsentRange, PresentRange }
      [] field.field_type = "UInt32" -> { 7 }
      [] OTHER -> { 0 }

RECURSIVE StructChoices(_, _, _)
StructChoices(fields, array, n) ==
    IF n = 0 THEN { << >> }
    ELSE { Append(cells, c) : cells \in StructChoices(fields, array, n - 1),
                              c \in CellChoices(fields[n], array) }

Memory(node, headers, cells, array) ==
    [ a \in NodeAddrs
            \cup { FieldAddr(SelfAddr, k) : k \in 1..Len(cells) }
            \cup { ArrayBase + j : j \in 0..(Len(array) - 1) } |->
        IF a = SelfAddr THEN [type_ |-> TagConst(node), flags |-> 0]
        ELSE IF a \in NodeAddrs THEN [type_ |-> headers[a], flags |-> 0]
        ELSE IF a < ArrayBase THEN cells[a - SelfAddr]
        ELSE array[a - ArrayBase + 1] ]

NoCall == [op |-> "none"]

InitBindings ==
    /\ \E i \in 1..Len(Config) :
       \E headers \in [NodeAddrs -> Tags] :
       \E array \in ArrayChoices(Config[i]) :
       \E cells \in StructChoices(Config[i].fields, array, Len(Config[i].fields)) :
          /\ mem = Memory(Config[i], headers, cells, array)
          /\ self = Wrapper(Config[i].name, ParserHandle, SelfAddr)
    /\ ret = NoCall
    /\ iters = << None, None >>
    /\ yields = << << >>, << >> >>
    /\ aborted = FALSE
    /\ NamesIdle
    /\ DocIdle
    /\ GenIdle
    /\ WalkIdle

\* self.{field}()
CallAccessor ==
    /\ ~aborted
    /\ \E k \in 1..Len(NodeSpec(self.kind).fields) :
          LET v == Accessor(self, k)
          IN  /\ ret' = [op |-> "accessor", field |-> k, val |-> v]
              /\ aborted' = IsPanic(v)
    /\ UNCHANGED <<mem, self, iters, yields, namesVars, docVars, genVars, walkVars>>

\* self.{field}().iter(), kept as the n-th iterator, n among those in use
CallIter(slots) ==
    /\ ~aborted
    /\ \E n \in slots :
       \E k \in ListFields(NodeSpec(self.kind)) :
          /\ iters' = [iters EXCEPT ![n] = Some(list_iter(Accessor(self, k)))]
          /\ yields' = [yields EXCEPT ![n] = << >>]
    /\ UNCHANGED <<mem, self, ret, aborted, namesVars, docVars, genVars, walkVars>>

MaxNext == MaxListLen + 2

\* A next() on one iterator that also moves the other one along.
CallNextShared(slots) ==
    /\ ~aborted
    /\ \E n \in slots :
          /\ iters[n] # None
          /\ Len(yields[n]) < MaxNext
          /\ LET step == iter_next(iters[n].val)
             IN  /\ iters' = [m \in 1..2 |->
                               IF iters[m] = None THEN None
                               ELSE Some([iters[m].val EXCEPT
                                            !.index = step.iter.index])]
                 /\ yields' = [yields EXCEPT ![n] = Append(yields[n], step.item)]
                 /\ aborted' = IsPanic(step.item)
    /\ UNCHANGED <<mem, self, ret, namesVars, docVars, genVars, walkVars>>

\* next() on the n-th iterator
CallNext(slots) ==
    /\ ~aborted
    /\ \E n \in slots :
          /\ iters[n] # None
          /\ Len(yields[n]) < MaxNext
          /\ LET step == iter_next(iters[n].val)
             IN  /\ iters' = [iters EXCEPT ![n] = Some(step.iter)]
                 /\ yields' = [yields EXCEPT ![n] = Append(yields[n], step.item)]
                 /\ aborted' = IsPanic(step.item)
    /\ UNCHANGED <<mem, self, ret, namesVars, docVars, genVars, walkVars>>

\* visit{struct_name}(visitor, &self)
CallVisitDefault ==
    /\ ~aborted
    /\ LET v == visit_default(self)
       IN  /\ ret' = [op |-> "visit_default", val |-> v]
           /\ aborted' = v.panic
    /\ UNCHANGED <<mem, self, iters, yields, namesVars, docVars, genVars, walkVars>>

NextBindings ==
    \/ CallAccessor
    \/ CallIter({ 1 })
    \/ CallNext({ 1 })
    \/ CallVisitDefault

SpecBindings == InitBindings /\ [][NextBindings]_vars

\* Two iterators over the list of the node, advanced in any interleaving.
NextIter ==
    \/ CallIter({ 1, 2 })
    \/ CallNext({ 1, 2 })

SpecIter == InitBindings /\ [][NextIter]_vars

\* Node::new(parser, node) on the pointer to any node
CallNodeNew ==
    /\ ~aborted
    /\ \E node \in NodeAddrs :
          LET v == Node_new(ParserHandle, node)
          IN  /\ ret' = [op |-> "Node::new", node |-> node, val |-> v]
              /\ aborted' = IsPanic(v)
    /\ UNCHANGED <<mem, self, iters, yields, namesVars, docVars, genVars, walkVars>>

\* as{struct_name(kind)}() on the union value just built
CallDowncast ==
    /\ ~aborted
    /\ ret.op = "Node::new"
    /\ \E i \in 1..Len(Config) :
          ret' = [op |-> "as", kind |-> Config[i].name, of |-> ret.val,
                  node |-> ret.node, val |-> as_kind(Config[i].name, ret.val)]
    /\ UNCHANGED <<mem, self, iters, yields, aborted, namesVars, docVars, genVars, walkVars>>

NextUnion ==
    \/ CallNodeNew
    \/ CallDowncast

SpecUnion == InitBindings /\ [][NextUnion]_vars

(***************************************************************************)
(* Location: start, end and as_slice                                       *)
(***************************************************************************)
\* Result<T, E>
Ok(x) == [tag |-> "Ok", val |-> x]

Err(e) == [tag |-> "Err", err |-> e]

\* Result::expect(msg) on an Err
ExpectFailed(msg) == [tag |-> "Panic", message |-> msg]

\* &'pr [u8]: the data pointer and the length of the slice
Slice(data, len) == [tag |-> "Slice", data |-> data, len |-> len]

Location_start(this) == mem[this.pointer].start

Location_end(this) == mem[this.pointer].end

\* <*const u8>::offset_from(origin): the distance in bytes, an isize; both
\* pointers lie in the same allocation, so it does not overflow.
offset_from(pointer, origin) == pointer - origin

\* usize::try_from(isize)
usize_try_from(n) ==
    IF n >= 0 THEN Ok(n) ELSE Err("TryFromIntError")

\* An as_slice that takes a negative length for zero.
as_slice_clamped(this) ==
    LET start == Location_start(this)
        len == usize_try_from(offset_from(Location_end(this), start))
    IN  IF len.tag = "Err" THEN Slice(start, 0)
        ELSE Slice(start, len.val)

\* Location::as_slice
as_slice(this) ==
    LET start == Location_start(this)
        len == usize_try_from(offset_from(Location_end(this), start))
    IN  IF len.tag = "Err"
        THEN ExpectFailed("end should point to memory after start")
        ELSE Slice(start, len.val)

(***************************************************************************)
(* SpecLocation: a client holding the Location view of a range calls       *)
(* start, end and as_slice.                                                *)
(***************************************************************************)
MaxSourceLen == 5

\* The address of the first byte of the source the parser read.
SourceBase == 1

\* The pointers into the source: to each of its bytes, and one past the last.
SourcePointers == SourceBase..(SourceBase + MaxSourceLen)

InitLocation ==
    /\ \E start \in SourcePointers, end \in SourcePointers :
          mem = [ a \in { SelfAddr } |-> [start |-> start, end |-> end] ]
    /\ self = LocationView(SelfAddr)
    /\ ret = NoCall
    /\ iters = << None, None >>
    /\ yields = << << >>, << >> >>
    /\ aborted = FALSE
    /\ NamesIdle
    /\ DocIdle
    /\ GenIdle
    /\ WalkIdle

\* self.start()
CallStart ==
    /\ ~aborted
    /\ ret' = [op |-> "start", val |-> Location_start(self)]
    /\ UNCHANGED <<mem, self, iters, yields, aborted, namesVars, docVars, genVars, walkVars>>

\* self.end()
CallEnd ==
    /\ ~aborted
    /\ ret' = [op |-> "end", val |-> Location_end(self)]
    /\ UNCHANGED <<mem, self, iters, yields, aborted, namesVars, docVars, genVars, walkVars>>

\* self.as_slice()
CallAsSlice ==
    /\ ~aborted
    /\ LET v == as_slice(self)
       IN  /\ ret' = [op |-> "as_slice", val |-> v]
           /\ aborted' = IsPanic(v)
    /\ UNCHANGED <<mem, self, iters, yields, namesVars, docVars, genVars, walkVars>>

NextLocation ==
    \/ CallStart
    \/ CallEnd
    \/ CallAsSlice

SpecLocation == InitLocation /\ [][NextLocation]_vars

(***************************************************************************)
(* The Visit trait at run time.  A call of a default traversal function    *)
(* in progress is a frame: the function, the wrapper it runs on, the       *)
(* statement it is at and, inside a for loop, the iterator of the loop.    *)
(***************************************************************************)
\* fn visit(&mut self, node: &Node): one arm per node of the schema, from the
\* variant to the per-kind method it calls.
VisitArms ==
    [ i \in 1..Len(Config) |->
        [variant |-> Config[i].name,
         method |-> VisitText \o struct_name(Config[i].name)] ]

\* fn visit{struct_name}(&mut self, node) { visit{struct_name}(self, node); }
\* one per node of the schema: the per-kind method and the free function its
\* default body calls.
VisitMethods ==
    [ i \in 1..Len(Config) |->
        [name |-> VisitText \o struct_name(Config[i].name),
         node |-> Config[i].name,
         calls |-> VisitText \o struct_name(Config[i].name)] ]

\* visitor.visit(&node): the arm of the node's variant calls the per-kind
\* method on a wrapper built from the variant's parser and pointer.
Visit_visit(node) ==
    LET arm == VisitArms[CHOOSE i \in 1..Len(Config) :
                            VisitArms[i].variant = node.variant]
    IN  VisitCall(arm.method, Wrapper(arm.variant, node.parser, node.pointer))

\* The call visitor.{method}(&arg) as it reaches a per-kind method: visit
\* goes through the match, a per-kind method is called as it is.
resolve_call(method, arg) ==
    IF method = VisitText THEN Visit_visit(arg) ELSE VisitCall(method, arg)

\* The free function the unoverridden per-kind method calls.
default_fn(method) ==
    LET m == VisitMethods[CHOOSE i \in 1..Len(Config) :
                             VisitMethods[i].name = method]
    IN  VisitFns[CHOOSE i \in 1..Len(Config) : VisitFns[i].name = m.calls]

Frame(call) == [fn |-> call.method, this |-> call.arg, pc |-> 1, iter |-> None]

Top(stk) == stk[Len(stk)]

Pop(stk) == SubSeq(stk, 1, Len(stk) - 1)

SetTop(stk, frame) == [stk EXCEPT ![Len(stk)] = frame]

\* The statement the top frame is at.
AtStmt(form) ==
    /\ ~aborted
    /\ stack # << >>
    /\ Top(stack).pc <= Len(default_fn(Top(stack).fn).body)
    /\ default_fn(Top(stack).fn).body[Top(stack).pc].form = form

CurrentStmt == default_fn(Top(stack).fn).body[Top(stack).pc]

\* node.{field}() in the top frame
CurrentValue ==
    Accessor(Top(stack).this, FieldIndex(Top(stack).this.kind, CurrentStmt.field))

\* A per-kind method is entered: it is recorded, and the frame of its default
\* traversal function goes on top of the caller's frames.
Enter(callers, method, arg) ==
    LET call == resolve_call(method, arg)
    IN  /\ visits' = Append(visits, call)
        /\ stack' = Append(callers, Frame(call))

Advance(frame) == [frame EXCEPT !.pc = frame.pc + 1]

(***************************************************************************)
(* SpecVisit: a client calls visit(root) on a visitor that overrides       *)
(* nothing, over a foreign memory that holds a forest of nodes.            *)
(***************************************************************************)
MaxTreeNodes == 3

TreeNodes == 1..MaxTreeNodes

TreeAddr(i) == NodeStride * i

\* Where the backing array of the list of node i lies.
TreeArrayBase(i) == NodeStride * (MaxTreeNodes + 1) + (i - 1) * MaxListLen

\* All sequences of distinct elements of S of length at most n.
DistinctSeqs(S, n) ==
    { s \in SeqsUpTo(S, n) :
        \A a \in 1..Len(s), b \in 1..Len(s) : a # b => s[a] # s[b] }

\* The children a field may take among the nodes that have no parent yet,
\* as a sequence of nodes: one for node, at most one for node?, a list for
\* node[]; a field that declares a kind takes nodes of that kind only.
ChildChoices(kinds, field, free) ==
    LET fit == IF field.kind # None /\ field.field_type # "NodeList"
               THEN { c \in free : kinds[c] = field.kind.val }
               ELSE free
    IN  CASE field.field_type = "Node" -> { << c >> : c \in fit }
          [] field.field_type = "OptionalNode" ->
                { << >> } \cup { << c >> : c \in fit }
          [] field.field_type = "NodeList" -> DistinctSeqs(fit, MaxListLen)
          [] OTHER -> { << >> }

Elems(s) == { s[j] : j \in 1..Len(s) }

\* The ways to give children to the first k fields.
RECURSIVE FieldFills(_, _, _, _)
FieldFills(kinds, fields, k, free) ==
    IF k = 0 THEN { [children |-> << >>, free |-> free] }
    ELSE UNION {
            { [children |-> Append(p.children, xs), free |-> p.free \ Elems(xs)] :
                xs \in ChildChoices(kinds, fields[k], p.free) } :
            p \in FieldFills(kinds, fields, k - 1, free) }

\* What the cell of a field without children holds.
PlainCell(field, i) ==
    CASE field.field_type = "ConstantList" -> [size |-> 0, ids |-> TreeArrayBase(i)]
      [] field.field_type = "LocationList" -> [size |-> 0, locations |-> TreeArrayBase(i)]
      [] field.field_type \in { "Location", "OptionalLocation" } -> PresentRange
      [] OTHER -> 0

TreeCell(forest, i, k) ==
    LET field == NodeSpec(forest.kinds[i]).fields[k]
        xs == forest.children[i][k]
    IN  CASE field.field_type = "Node" -> TreeAddr(xs[1])
          [] field.field_type = "OptionalNode" ->
                IF xs = << >> THEN NULL ELSE TreeAddr(xs[1])
          [] field.field_type = "NodeList" ->
                [size |-> Len(xs), nodes |-> TreeArrayBase(i)]
          [] OTHER -> PlainCell(field, i)

\* The elements of the list of node i, if it has one.
TreeArray(forest, i) ==
    LET fields == NodeSpec(forest.kinds[i]).fields
        lists == { k \in 1..Len(fields) : fields[k].field_type = "NodeList" }
    IN  IF lists = { } THEN << >>
        ELSE forest.children[i][CHOOSE k \in lists : TRUE]

\* The foreign memory of a forest.
TreeMemory(forest) ==
    LET header == [ i \in TreeNodes |->
                      [type_ |-> TagConst(NodeSpec(forest.kinds[i])), flags |-> 0] ]
        cells == { <<i, k>> \in TreeNodes \X (1..(NodeStride - 1)) :
                      k <= Len(NodeSpec(forest.kinds[i]).fields) }
        items == { <<i, j>> \in TreeNodes \X (1..MaxListLen) :
                      j <= Len(TreeArray(forest, i)) }
    IN  [ a \in { TreeAddr(i) : i \in TreeNodes }
                \cup { FieldAddr(TreeAddr(c[1]), c[2]) : c \in cells }
                \cup { TreeArrayBase(c[1]) + c[2] - 1 : c \in items } |->
            IF a >= TreeArrayBase(1)
            THEN LET off == a - TreeArrayBase(1)
                 IN  TreeAddr(TreeArray(forest, (off \div MaxListLen) + 1)
                                [(off % MaxListLen) + 1])
            ELSE IF a % NodeStride = 0 THEN header[a \div NodeStride]
            ELSE TreeCell(forest, a \div NodeStride, a % NodeStride) ]

\* The memory holds a forest over the nodes: from the last node to the first,
\* each node is given a kind of the schema and children among the nodes after
\* it that have no parent yet.
RECURSIVE MemoryOfForest(_, _, _, _)
MemoryOfForest(i, kinds, children, free) ==
    IF i = 0
    THEN mem = TreeMemory([kinds |-> kinds, children |-> children])
    ELSE \E n \in 1..Len(Config) :
         \E fill \in FieldFills(kinds, Config[n].fields, Len(Config[n].fields), free) :
            MemoryOfForest(i - 1, (i :> Config[n].name) @@ kinds,
                           (i :> fill.children) @@ children,
                           fill.free \cup { i })

\* The root is the first node; the nodes outside its tree are in the memory
\* and not reachable from it.
InitVisit ==
    /\ MemoryOfForest(MaxTreeNodes, << >>, << >>, { })
    /\ self = Node_new(ParserHandle, TreeAddr(1))
    /\ ret = NoCall
    /\ iters = << None, None >>
    /\ yields = << << >>, << >> >>
    /\ aborted = FALSE
    /\ stack = << >>
    /\ visits = << >>
    /\ NamesIdle
    /\ DocIdle
    /\ GenIdle

\* visitor.visit(&root)
CallVisit ==
    /\ ~aborted
    /\ ret = NoCall
    /\ Enter(stack, VisitText, self)
    /\ ret' = [op |-> "visit", returned |-> FALSE]
    /\ UNCHANGED <<mem, self, iters, yields, aborted, namesVars, docVars, genVars>>

\* visitor.{method}(&node.{field}());
StepCall ==
    /\ AtStmt("call")
    /\ LET v == CurrentValue
       IN  IF IsPanic(v)
           THEN /\ aborted' = TRUE
                /\ UNCHANGED walkVars
           ELSE /\ Enter(SetTop(stack, Advance(Top(stack))), CurrentStmt.method, v)
                /\ UNCHANGED aborted
    /\ UNCHANGED <<mem, self, ret, iters, yields, namesVars, docVars, genVars>>

\* if let Some(node) = node.{field}() { visitor.{method}(&node); }
StepIfSome ==
    /\ AtStmt("if_some")
    /\ LET v == CurrentValue
       IN  IF IsPanic(v)
           THEN /\ aborted' = TRUE
                /\ UNCHANGED walkVars
           ELSE IF v = None
           THEN /\ stack' = SetTop(stack, Advance(Top(stack)))
                /\ UNCHANGED <<visits, aborted>>
           ELSE /\ Enter(SetTop(stack, Advance(Top(stack))), CurrentStmt.method, v.val)
                /\ UNCHANGED aborted
    /\ UNCHANGED <<mem, self, ret, iters, yields, namesVars, docVars, genVars>>

\* for node in node.{field}().iter(): the iterator is created
StepFor ==
    /\ AtStmt("for")
    /\ Top(stack).iter = None
    /\ stack' = SetTop(stack, [Top(stack) EXCEPT !.iter = Some(list_iter(CurrentValue))])
    /\ UNCHANGED <<visits, rtVars, namesVars, docVars, genVars>>

\* for node in ..: next() ends the loop or gives the node of one more
\* visitor.visit(&node);
StepNext ==
    /\ AtStmt("for")
    /\ Top(stack).iter # None
    /\ LET step == iter_next(Top(stack).iter.val)
       IN  IF IsPanic(step.item)
           THEN /\ aborted' = TRUE
                /\ UNCHANGED walkVars
           ELSE IF step.item = None
           THEN /\ stack' = SetTop(stack, [Advance(Top(stack)) EXCEPT !.iter = None])
                /\ UNCHANGED <<visits, aborted>>
           ELSE /\ Enter(SetTop(stack, [Top(stack) EXCEPT !.iter = Some(step.iter)]),
                         CurrentStmt.method, step.item.val)
                /\ UNCHANGED aborted
    /\ UNCHANGED <<mem, self, ret, iters, yields, namesVars, docVars, genVars>>

\* The end of a default traversal function; visit(root) returns with the
\* last one.
StepReturn ==
    /\ ~aborted
    /\ stack # << >>
    /\ Top(stack).pc > Len(default_fn(Top(stack).fn).body)
    /\ stack' = Pop(stack)
    /\ ret' = [ret EXCEPT !.returned = (Len(stack) = 1)]
    /\ UNCHANGED <<mem, self, iters, yields, aborted, visits, namesVars, docVars, genVars>>

NextVisit ==
    \/ CallVisit
    \/ StepCall
    \/ StepIfSome
    \/ StepFor
    \/ StepNext
    \/ StepReturn

SpecVisit == InitVisit /\ [][NextVisit]_vars

\* The visitor runs on one thread: the step that is enabled is taken.
SpecVisitLive == SpecVisit /\ WF_vars(NextVisit)

(***************************************************************************)
(* Properties of the union and its downcasts                               *)
(***************************************************************************)
KnownTag(node) ==
    \E i \in 1..Len(Config) : mem[node].type_ = TagConsts[i]

\* C2: Node::new on a pointer whose header discriminant is the tag constant
\* of kind K yields the variant K holding the parser and that pointer; on that
\* value the downcast of K returns the K wrapper with the same parser and
\* pointer, and the downcast of every other kind returns None.
C2_UnionVariantMatchesTag ==
    \A i \in 1..Len(Config) :
        LET K == Config[i].name
        IN  /\ (ret.op = "Node::new" /\ mem[ret.node].type_ = TagConsts[i]) =>
                  ret.val = NodeValue(K, ParserHandle, ret.node)
            /\ (ret.op = "as" /\ mem[ret.node].type_ = TagConsts[i]) =>
                  /\ ret.of.variant = K
                  /\ ret.kind = K => ret.val = Some(Wrapper(K, ParserHandle, ret.node))
                  /\ ret.kind # K => ret.val = None

\* A union value built from a node whose header says Stmts, downcast to Stmts
\* with success.
C2_Witness ==
    /\ ret.op = "as"
    /\ mem[ret.node].type_ = TagConst(NodeSpec(N_Stmts))
    /\ ret.of.variant = N_Stmts
    /\ ret.kind = N_Stmts
    /\ ret.val = Some(Wrapper(N_Stmts, ParserHandle, ret.node))

(***************************************************************************)
(* Properties of the list iterators                                        *)
(***************************************************************************)
\* The foreign list record an iterator reads.
ListRecord(it) == mem[it.pointer]

\* The item view of the element at backing-array index j of the list.
ItemAt(it, j) ==
    CASE it.family = "LocationList" ->
            Some(LocationView(ListRecord(it).locations + j))
      [] it.family = "NodeList" ->
            SomeOf(Node_new(ParserHandle, mem[ListRecord(it).nodes + j]))
      [] it.family = "ConstantList" ->
            Some(ConstantId(ParserHandle, mem[ListRecord(it).ids + j]))

Min(a, b) == IF a <= b THEN a ELSE b

\* C3: over an unchanged list of count n, the c-th next() call of an iterator
\* returns the element at index c - 1 while c <= n and None afterwards, and the
\* cursor has advanced by one per returned item: n items, then None for ever.
C3_NextYieldsInOrderThenNone ==
    \A n \in 1..2 :
        iters[n] # None =>
            LET it == iters[n].val
                size == ListRecord(it).size
            IN  /\ \A c \in 1..Len(yields[n]) :
                      yields[n][c] = (IF c <= size THEN ItemAt(it, c - 1) ELSE None)
                /\ it.index = Min(Len(yields[n]), size)

\* An iterator over a node list of two elements, called four times: two items,
\* then None twice.
C3_Witness ==
    /\ iters[1] # None
    /\ iters[1].val.family = "NodeList"
    /\ ListRecord(iters[1].val).size = 2
    /\ Len(yields[1]) = 4
    /\ yields[1][1].tag = "Some" /\ yields[1][2].tag = "Some"
    /\ yields[1][1].val.pointer # yields[1][2].val.pointer
    /\ yields[1][3] = None /\ yields[1][4] = None

\* The two iterators agree on every item both have been asked for.
SameItems ==
    (iters[1] # None /\ iters[2] # None) =>
        \A c \in 1..Min(Len(yields[1]), Len(yields[2])) : yields[1][c] = yields[2][c]

\* An iterator that has not been advanced yet is at cursor 0.
FreshAtZero ==
    \A n \in 1..2 :
        (iters[n] # None /\ yields[n] = << >>) => iters[n].val.index = 0

\* A step leaves the list alone, and leaves alone the iterator it neither
\* advances nor creates.
OthersUntouched ==
    /\ mem' = mem
    /\ \A n \in 1..2 :
          (iters[n] # None /\ yields'[n] = yields[n]) => iters'[n] = iters[n]

\* C4: iter() returns a fresh iterator at cursor 0, and two iterators of the
\* same list are independent: however their next() calls interleave they
\* yield the same items in the same order, and advancing one changes neither
\* the cursor of the other nor the list.
C4_IteratorsIndependent ==
    /\ [](FreshAtZero /\ SameItems)
    /\ [][OthersUntouched]_vars

\* Two iterators over the same two-element list, one advanced twice and the
\* other once.
C4_Witness ==
    /\ iters[1] # None /\ iters[2] # None
    /\ ListRecord(iters[1].val).size = 2
    /\ Len(yields[1]) = 2 /\ Len(yields[2]) = 1
    /\ iters[1].val.index = 2 /\ iters[2].val.index = 1
    /\ yields[1][1] = yields[2][1]
    /\ ~aborted

(***************************************************************************)
(* Properties of the accessors                                             *)
(***************************************************************************)
CalledField == NodeSpec(self.kind).fields[ret.field]

\* The content of the cell the called accessor reads.
CalledCell == mem[FieldAddr(self.pointer, ret.field)]

\* The un-narrowed child pointers the default traversal of the node reads, in
\* the order it reads them.
RECURSIVE TraversedPointers(_, _)
TraversedPointers(this, k) ==
    IF k > Len(NodeSpec(this.kind).fields) THEN << >>
    ELSE LET field == NodeSpec(this.kind).fields[k]
             cell == mem[FieldAddr(this.pointer, k)]
             here ==
                CASE field.field_type = "Node" /\ field.kind = None -> << cell >>
                  [] field.field_type = "OptionalNode" /\ field.kind = None ->
                        IF cell = NULL THEN << >> ELSE << cell >>
                  [] field.field_type = "NodeList" ->
                        [ j \in 1..cell.size |-> mem[cell.nodes + j - 1] ]
                  [] OTHER -> << >>
         IN  here \o TraversedPointers(this, k + 1)

NoNodeOfUnknownTag(v) ==
    /\ v.tag = "Node" => KnownTag(v.pointer)
    /\ v.tag = "Some" => (v.val.tag = "Node" => KnownTag(v.val.pointer))

\* C6: building a union value from a pointer whose header discriminant is none
\* of the schema's tag constants panics and produces no Node value, on every
\* path to Node::new: the accessor of an un-narrowed node field or non-null
\* node? field, NodeListIter::next, and the default traversal.
C6_UnknownTagAborts ==
    /\ ret.op = "accessor" =>
          /\ ( /\ CalledField.field_type \in { "Node", "OptionalNode" }
               /\ CalledField.kind = None
               /\ CalledCell # NULL
               /\ ~KnownTag(CalledCell) )
                => (IsPanic(ret.val) /\ aborted)
          /\ NoNodeOfUnknownTag(ret.val)
    /\ \A n \in 1..2 :
          (iters[n] # None /\ iters[n].val.family = "NodeList") =>
              \A c \in 1..Min(Len(yields[n]), ListRecord(iters[n].val).size) :
                  /\ ~KnownTag(mem[ListRecord(iters[n].val).nodes + c - 1]) =>
                        (IsPanic(yields[n][c]) /\ aborted /\ c = Len(yields[n]))
                  /\ NoNodeOfUnknownTag(yields[n][c])
    /\ ret.op = "visit_default" =>
          LET ptrs == TraversedPointers(self, 1)
          IN  /\ (\E j \in 1..Len(ptrs) : ~KnownTag(ptrs[j])) =>
                    (ret.val.panic /\ aborted)
              /\ \A c \in 1..Len(ret.val.calls) :
                    NoNodeOfUnknownTag(ret.val.calls[c].arg)

\* The default traversal of a Stmts node whose list holds a node of a known
\* type and then one of an unknown type: one visit, then the panic.
C6_Witness ==
    /\ ret.op = "visit_default"
    /\ self.kind = N_Stmts
    /\ Len(TraversedPointers(self, 1)) = 2
    /\ KnownTag(TraversedPointers(self, 1)[1])
    /\ ~KnownTag(TraversedPointers(self, 1)[2])
    /\ Len(ret.val.calls) = 1
    /\ ret.val.panic
    /\ aborted

\* What the node accessor builds from a child pointer.
RequiredChildValue(field, pointer) ==
    IF field.kind # None
    THEN Wrapper(field.kind.val, ParserHandle, pointer)
    ELSE Node_new(ParserHandle, pointer)

\* C7: the accessor of a node? field, narrowed or not, returns None exactly
\* when the child pointer is null, and otherwise what the node accessor would
\* build from that pointer; it never returns a wrapper around a null pointer.
C7_OptionalChildNullIsNone ==
    (ret.op = "accessor" /\ CalledField.field_type = "OptionalNode") =>
        /\ ret.val = None <=> CalledCell = NULL
        /\ CalledCell # NULL =>
              ret.val = SomeOf(RequiredChildValue(CalledField, CalledCell))
        /\ ret.val.tag = "Some" => ret.val.val.pointer # NULL

\* The narrowed node? accessor of a Paren node called on a null child.
C7_Witness ==
    /\ ret.op = "accessor"
    /\ CalledField.field_type = "OptionalNode"
    /\ CalledField.kind = Some(N_Stmts)
    /\ CalledCell = NULL
    /\ ret.val = None

\* C8: the accessor of a location? field returns None when the node's source
\* range for the field is null (not in the foreign tree), and a Location view
\* only when the range is there.
C8_OptionalLocationNullIsNone ==
    (ret.op = "accessor" /\ CalledField.field_type = "OptionalLocation") =>
        ret.val = None <=> is_null(CalledCell.start)

(***************************************************************************)
(* Properties of the dispatch in the default traversal                     *)
(***************************************************************************)
\* fn visit{struct_name(node.name)}(&mut self, node: &{node.name}): the name
\* of the per-kind method of the Visit trait.
visit_method_name(kind) == VisitMethods[KindIndex(kind)].name

\* The kind whose tag constant the header at the pointer holds.
KindOfTag(pointer) ==
    Config[CHOOSE i \in 1..Len(Config) : mem[pointer].type_ = TagConsts[i]].name

\* What the traversal of a node is to hand to the visitor for one child
\* pointer of a field: the per-kind method and the wrapper of the declared
\* kind, or the entry point visit and the union value.
DispatchOf(field, pointer) ==
    IF field.kind # None /\ field.field_type \in { "Node", "OptionalNode" }
    THEN [known |-> TRUE,
          call |-> VisitCall(visit_method_name(field.kind.val),
                             Wrapper(field.kind.val, ParserHandle, pointer))]
    ELSE IF KnownTag(pointer)
    THEN [known |-> TRUE,
          call |-> VisitCall(VisitText,
                             NodeValue(KindOfTag(pointer), ParserHandle, pointer))]
    ELSE [known |-> FALSE]

\* The child pointers of the k-th field on, each with its field, in the order
\* of the fields and, in a list, of the indices.
RECURSIVE ChildPointers(_, _)
ChildPointers(this, k) ==
    IF k > Len(NodeSpec(this.kind).fields) THEN << >>
    ELSE LET field == NodeSpec(this.kind).fields[k]
             cell == mem[FieldAddr(this.pointer, k)]
             here ==
                CASE field.field_type = "Node" ->
                        << [field |-> field, pointer |-> cell] >>
                  [] field.field_type = "OptionalNode" ->
                        IF cell = NULL THEN << >>
                        ELSE << [field |-> field, pointer |-> cell] >>
                  [] field.field_type = "NodeList" ->
                        [ j \in 1..cell.size |->
                            [field |-> field, pointer |-> mem[cell.nodes + j - 1]] ]
                  [] OTHER -> << >>
         IN  here \o ChildPointers(this, k + 1)

\* The statement written for a field of each shape names the per-kind method
\* of the declared kind on node and node? fields, and visit otherwise.
WrittenDispatch ==
    \A shape \in FieldShapes :
        LET field == Field("f", shape.field_type, shape.kind)
            stmts == visit_stmts(field)
        IN  CASE field.field_type \in { "Node", "OptionalNode" } ->
                    /\ Len(stmts) = 1
                    /\ stmts[1].form =
                          (IF field.field_type = "Node" THEN "call" ELSE "if_some")
                    /\ field.kind # None =>
                          /\ stmts[1].method = visit_method_name(field.kind.val)
                          /\ stmts[1].method # VisitText
                    /\ field.kind = None => stmts[1].method = VisitText
              [] field.field_type = "NodeList" ->
                    /\ Len(stmts) = 1
                    /\ stmts[1].form = "for"
                    /\ stmts[1].method = VisitText
              [] OTHER -> stmts = << >>

\* C11: the default traversal of a node calls, per child pointer in field
\* order (list elements in index order, a null node? child skipped), the
\* per-kind visit method of the declared kind with the wrapper of that kind
\* when the node or node? field declares a kind, and the entry point visit
\* with the union value otherwise; it stops at the first pointer whose header
\* it cannot discriminate.
C11_NarrowedDirectElseGeneric ==
    /\ WrittenDispatch
    /\ ret.op = "visit_default" =>
          LET ptrs == ChildPointers(self, 1)
              calls == ret.val.calls
              want == [ c \in 1..Len(ptrs) |-> DispatchOf(ptrs[c].field, ptrs[c].pointer) ]
          IN  /\ Len(calls) <= Len(want)
              /\ \A c \in 1..Len(calls) : want[c].known /\ calls[c] = want[c].call
              /\ ret.val.panic <=> Len(calls) < Len(want)
              /\ ret.val.panic => ~want[Len(calls) + 1].known

\* The traversal of a Prog node: the narrowed field statements goes to the
\* per-kind method of Stmts with a wrapper, the un-narrowed field expression
\* to visit with a union value.
C11_Witness ==
    /\ ret.op = "visit_default"
    /\ self.kind = N_Prog
    /\ ~ret.val.panic
    /\ Len(ret.val.calls) = 2
    /\ ret.val.calls[1].method = VisitText \o << "_", "s", "t", "m", "t", "s" >>
    /\ ret.val.calls[1].arg.tag = "Wrapper"
    /\ ret.val.calls[2].method = VisitText
    /\ ret.val.calls[2].arg.tag = "Node"

(***************************************************************************)
(* Properties of the comment lines of the doc block                        *)
(***************************************************************************)
IsCommentEntry(entry) == ~IsFenceLine(entry)

\* The output without its fence markers.
CommentEntries == SelectSeq(doc_out, IsCommentEntry)

\* The text a line of the block is to appear as.
ExpectedText(line) ==
    IF IsIndented(line) THEN SubSeq(line, 5, Len(line)) ELSE line

\* C14: without its fence markers the output holds one comment line per line
\* consumed, in the order of the input: an indented line without its first
\* four spaces, any other line as it is; and every open fence is directly
\* followed by an example line.
C14_LinesPreservedNoEmptyFence ==
    /\ Len(CommentEntries) = line_ix
    /\ \A i \in 1..line_ix :
          /\ CommentEntries[i].text = DocPrefix \o ExpectedText(comment[i])
          /\ CommentEntries[i].site =
                (IF IsIndented(comment[i]) THEN "example" ELSE "plain")
    /\ \A k \in 1..Len(doc_out) :
          doc_out[k].site = "open" =>
              /\ k < Len(doc_out)
              /\ doc_out[k + 1].site = "example"

\* A block of a plain line, a line indented twice and a line of four spaces
\* only, fully written: the second keeps one indent, the third is empty.
C14_Witness ==
    /\ doc_pc = "done"
    /\ comment = << << "a" >>, Indent \o Indent \o << "a" >>, Indent >>
    /\ Len(doc_out) = 5
    /\ doc_out[2] = OpenFenceLine
    /\ doc_out[3].text = DocPrefix \o Indent \o << "a" >>
    /\ doc_out[4].text = DocPrefix
    /\ doc_out[5] = CloseFenceLine

(***************************************************************************)
(* Properties of Location::as_slice                                        *)
(***************************************************************************)
\* The foreign range the view is on.
RangeOfSelf == mem[self.pointer]

\* C12: as_slice on a range whose end lies before its start panics and
\* returns no slice; on a range whose end lies at or after its start it
\* returns the slice that begins at start and is end - start bytes long.
C12_AsSliceLengthOrAbort ==
    ret.op = "as_slice" =>
        /\ RangeOfSelf.end < RangeOfSelf.start =>
              /\ IsPanic(ret.val)
              /\ aborted
        /\ RangeOfSelf.end >= RangeOfSelf.start =>
              /\ ret.val = Slice(RangeOfSelf.start,
                                 RangeOfSelf.end - RangeOfSelf.start)
              /\ ~aborted

\* as_slice called on a range that ends two bytes before it starts.
C12_Witness ==
    /\ ret.op = "as_slice"
    /\ RangeOfSelf.start = SourceBase + 2
    /\ RangeOfSelf.end = SourceBase
    /\ IsPanic(ret.val)
    /\ aborted

(***************************************************************************)
(* Properties of the traversal of a tree                                   *)
(***************************************************************************)
\* The wrapper of the node at a pointer, of the kind its header says.
NodeAt(pointer) == Wrapper(KindOfTag(pointer), ParserHandle, pointer)

\* The pointers in the child-bearing fields of the node at a pointer, in the
\* order of the fields and of the list indices.
Children(pointer) ==
    LET ptrs == ChildPointers(NodeAt(pointer), 1)
    IN  [ c \in 1..Len(ptrs) |-> ptrs[c].pointer ]

\* The nodes of the tree under a pointer.
RECURSIVE Reachable(_)
Reachable(pointer) ==
    { pointer } \cup
        UNION { Reachable(Children(pointer)[c]) : c \in 1..Len(Children(pointer)) }

VisitedPointers == { visits[c].arg.pointer : c \in 1..Len(visits) }

\* The position of the visit of a visited node.
VisitIndex(pointer) ==
    CHOOSE c \in 1..Len(visits) : visits[c].arg.pointer = pointer

VisitReturned == ret.op = "visit" /\ ret.returned

\* At every moment of visit(root): only nodes of the tree of the root have
\* been visited, none twice, each by the per-kind method of the kind its
\* header says and on the wrapper of that kind; a visited node other than the
\* root has its parent visited before it, and the siblings before it in field
\* and index order visited before it; no panic has occurred.  Once visit has
\* returned, every node of the tree has been visited.
VisitedOnceInOrder ==
    LET root == self.pointer
        tree == Reachable(root)
    IN  /\ ~aborted
        /\ \A c \in 1..Len(visits) :
              /\ visits[c].arg.pointer \in tree
              /\ visits[c].method = visit_method_name(KindOfTag(visits[c].arg.pointer))
              /\ visits[c].arg = NodeAt(visits[c].arg.pointer)
              /\ \A b \in 1..Len(visits) :
                    visits[b].arg.pointer = visits[c].arg.pointer => b = c
        /\ visits # << >> => visits[1].arg.pointer = root
        /\ \A p \in tree :
              LET kids == Children(p)
              IN  \A j \in 1..Len(kids) :
                      kids[j] \in VisitedPointers =>
                          /\ p \in VisitedPointers
                          /\ VisitIndex(p) < VisitIndex(kids[j])
                          /\ \A h \in 1..(j - 1) :
                                /\ kids[h] \in VisitedPointers
                                /\ VisitIndex(kids[h]) < VisitIndex(kids[j])
        /\ VisitReturned => (VisitedPointers = tree /\ stack = << >>)

\* C13: with a visitor that overrides nothing, visit(root) on a well-formed
\* tree returns, and by then has invoked a per-kind visit method exactly once
\* for every node reachable from the root and for no other node, each time
\* the method of the node's kind, a parent before its children and siblings
\* in field order, list elements in index order.
C13_VisitsEachReachableOnce ==
    /\ []VisitedOnceInOrder
    /\ <>VisitReturned

\* visit(root) has returned on a tree of three nodes: the root, then its
\* first child, which lies at the higher address, then its second child.
C13_Witness ==
    /\ VisitReturned
    /\ Len(visits) = 3
    /\ Len(Children(self.pointer)) = 2
    /\ Children(self.pointer)[1] > Children(self.pointer)[2]
    /\ visits[1].arg.pointer = self.pointer
    /\ visits[2].arg.pointer = Children(self.pointer)[1]
    /\ visits[3].arg.pointer = Children(self.pointer)[2]

====
